---- MODULE Spec2Model ----
(***************************************************************************)
(* Model of the SZ-DDFT parameter scan of sir_ddft_py/examples/article:    *)
(*   sz_ddft_phasediagram.py  the scheduler script (job-table load, the    *)
(*                            skip-filtered job list, joblib.Parallel,     *)
(*                            run_job with its driver loop and np.savez)   *)
(*   plot_sz_phasediagram.py  the aggregator script (job-table load, scan  *)
(*                            grid, the pass over the result files)        *)
(* Floats are modelled as integers: parameters in tenths, simulation time  *)
(* in steps of DT, population totals in small integer units.               *)
(***************************************************************************)
EXTENDS Integers, Sequences, FiniteSets, TLC

(***************************************************************************)
(* Bounds of the model.                                                    *)
(***************************************************************************)
\* scheduler invocations that are run one after the other
MaxRuns == 2
\* largest value of the --jobs argument
MaxW == 2
\* data rows of a job-table file drawn in InitLoad
MaxRows == 2
MaxCrel == 2

(***************************************************************************)
(* Job-table files: the rows after the header, each row three text cells.  *)
(***************************************************************************)
IdCells == {"1", "01", "2", "3"}
KillCells == {"4", "4.0", "5"}
FearCells == {"10", "20"}

\* int(job_id): "01" and "1" are the same job id
ParseInt(cell) ==
  CASE cell = "1" -> 1
    [] cell = "01" -> 1
    [] cell = "2" -> 2
    [] cell = "3" -> 3

\* float(kill), float(fear), in tenths: "4" and "4.0" are the same float
ParseFloat(cell) ==
  CASE cell = "4" -> 40
    [] cell = "4.0" -> 40
    [] cell = "5" -> 50
    [] cell = "10" -> 100
    [] cell = "20" -> 200

\* every job id a file can name; the result files are keyed by it
JobIds == {ParseInt(c) : c \in IdCells}

Rows == IdCells \X KillCells \X FearCells

RECURSIVE SeqsUpTo(_, _)
SeqsUpTo(S_, n) ==
  IF n = 0 THEN {<<>>}
  ELSE LET shorter == SeqsUpTo(S_, n - 1)
       IN shorter \cup {Append(s, x) : s \in {q \in shorter : Len(q) = n - 1}, x \in S_}

\* the job-table files LoadSpec draws from
AllFiles == SeqsUpTo(Rows, MaxRows)

\* the job-table files Spec draws from: a 3-job scan, a repeated job id,
\* a repeated parameter pair
GoodFile == << <<"1", "4", "10">>, <<"2", "4.0", "20">>, <<"3", "5", "10">> >>
DupIdFile == << <<"1", "4", "10">>, <<"01", "5", "10">> >>
DupPairFile == << <<"1", "4", "10">>, <<"2", "4.0", "10">> >>
JobFiles == {GoodFile, DupIdFile, DupPairFile}

\* jobs_parameters is a dict in insertion order: a sequence of
\* <<job_id, kill, fear>> entries
Keys(table) == {table[k][1] : k \in 1..Len(table)}
Values(table) == {<<table[k][2], table[k][3]>> : k \in 1..Len(table)}

\* RowAccepted without the assert on the parameter pair
RowAcceptedIdOnly(table, job_id, kill, fear) == job_id \notin Keys(table)

\* the two asserts of the load loop
RowAccepted(table, job_id, kill, fear) ==
  /\ <<kill, fear>> \notin Values(table)
  /\ job_id \notin Keys(table)

\* the load loop from row k on; ok = FALSE is the AssertionError
RECURSIVE LoadRows(_, _, _)
LoadRows(rows, k, table) ==
  IF k > Len(rows) THEN [ok |-> TRUE, table |-> table]
  ELSE LET job_id == ParseInt(rows[k][1])
           kill == ParseFloat(rows[k][2])
           fear == ParseFloat(rows[k][3])
       IN IF RowAccepted(table, job_id, kill, fear)
          THEN LoadRows(rows, k + 1, Append(table, <<job_id, kill, fear>>))
          ELSE [ok |-> FALSE, table |-> table]

LoadTable(rows) == LoadRows(rows, 1, <<>>)

Last(seq) == seq[Len(seq)]

\* sorted(set): the ascending sequence of the set's elements
RECURSIVE Sorted(_)
Sorted(set) ==
  IF set = {} THEN <<>>
  ELSE LET least == CHOOSE x \in set : \A y \in set : x <= y
       IN <<least>> \o Sorted(set \ {least})

(***************************************************************************)
(* State.                                                                  *)
(***************************************************************************)
VARIABLES
  csvFile,          \* rows of ./phasediagram_jobs.csv, the file the scheduler opens
  argFile,          \* rows of the file named by the jobfile argument
  n_jobs,           \* args.jobs
  npz,              \* job id -> the arrays that {job_id}.npz holds once it is complete
  fs,               \* outdir: job id -> state of {job_id}.npz
  pc,               \* per scheduler invocation: position in the script
  jobs_parameters,  \* per invocation: the loaded job table
  cursor,           \* per invocation: position of the enumeration loop
  jobs,             \* per invocation: the skip-filtered job list
  task,             \* per invocation: status of each dispatched run_job call, in dispatch order
  skipped,          \* per invocation: jobs for which run_job printed "Skipping job"
  exit_status,      \* per invocation: -1 while running, then the process exit status
  exception,        \* per invocation: the exception that ended the script
  aggPc,            \* aggregator: position in the script
  aggTable,         \* aggregator: the loaded job table
  aggCursor,        \* aggregator: position of the fill loop
  aggSeen,          \* aggregator: what the pass found at each job's result path
  kill_rates,       \* aggregator: ascending kill rates of the scan grid
  fear_amplitudes,  \* aggregator: ascending fear amplitudes of the scan grid
  pop_initial,      \* aggregator: grid of initial populations
  S_final,          \* aggregator: grid of final survivor totals
  Z_final,          \* aggregator: grid of final zombie totals
  t_end,            \* aggregator: grid of end times
  kill_index,       \* aggregator: first grid index of the last result (1-based)
  fear_index,       \* aggregator: second grid index of the last result (1-based)
  end_idx,          \* aggregator: end_idx of the last result (a Python index, 0-based)
  target_field,     \* aggregator: the array target_field names, or NoField
  THRESHOLD,        \* aggregator: the threshold THRESHOLD names, or NoThreshold
  no_convergence,   \* aggregator: jobs reported with "No convergence for job"
  aggError,         \* aggregator: the exception that ended the script
  outfile,          \* aggregator: state of the figure file
  drvPc,            \* driver: position in run_job
  job,              \* driver: the arguments of run_job, <<job_id, kill_rate, fear_amplitude>>
  t,                \* driver: recorded times
  S,                \* driver: recorded survivor totals
  Z,                \* driver: recorded zombie totals
  saved,            \* driver: the arrays handed to np.savez
  scanPc,           \* cluster scan: position in the script
  scanI,            \* cluster scan: i of the submission loop (0-based)
  scanJ,            \* cluster scan: j of the submission loop (0-based)
  clusterJobs,      \* cluster scan: the list jobs of submitted dispy jobs
  parameter_table,  \* cluster scan: the list of (c_si, c_rel) rows
  tableFile,        \* cluster scan: rows of outdir/parameter_table.npy, <<>> before np.save
  collectIdx,       \* cluster scan: position of the collection loop
  failures,         \* cluster scan: ids printed with "failed with exception", in order
  runFiles          \* cluster scan: the run_{id}.npz files of outdir

inputVars == <<csvFile, argFile, n_jobs, npz>>
schedVars == <<pc, jobs_parameters, cursor, jobs, task, skipped, exit_status, exception>>
gridVars == <<pop_initial, S_final, Z_final, t_end>>
loopVars == <<kill_index, fear_index, end_idx, target_field, THRESHOLD, no_convergence>>
aggVars == <<aggPc, aggTable, aggCursor, aggSeen, kill_rates, fear_amplitudes, gridVars,
             loopVars, aggError, outfile>>
drvVars == <<drvPc, job, t, S, Z, saved>>
scanVars == <<scanPc, scanI, scanJ, clusterJobs, parameter_table, tableFile, collectIdx,
              failures, runFiles>>
vars == <<inputVars, fs, schedVars, aggVars, drvVars, scanVars>>

Invs == 1..MaxRuns

Absent == [st |-> "absent", by |-> 0]
\* a result file left complete by a run before the first modelled one
Earlier == [st |-> "complete", by |-> 0]

\* os.path.exists(job_result_path(job_id))
Exists(dir, job_id) == dir[job_id].st # "absent"

NoException == [kind |-> "none", job |-> 0]

(***************************************************************************)
(* The scheduler script, sz_ddft_phasediagram.py.                          *)
(***************************************************************************)
InitSched ==
  /\ pc = [i \in Invs |-> "idle"]
  /\ jobs_parameters = [i \in Invs |-> <<>>]
  /\ cursor = [i \in Invs |-> 0]
  /\ jobs = [i \in Invs |-> <<>>]
  /\ task = [i \in Invs |-> <<>>]
  /\ skipped = [i \in Invs |-> {}]
  /\ exit_status = [i \in Invs |-> -1]
  /\ exception = [i \in Invs |-> NoException]

\* the script ends: normally (status 0) or by an uncaught exception (status 1)
Exit(i, status, exc) ==
  /\ pc' = [pc EXCEPT ![i] = "exited"]
  /\ exit_status' = [exit_status EXCEPT ![i] = status]
  /\ exception' = [exception EXCEPT ![i] = exc]

\* the script is started: parse_args and the job-table load
Launch(i) ==
  /\ pc[i] = "idle"
  /\ LET r == LoadTable(csvFile)
     IN IF r.ok
        THEN /\ jobs_parameters' = [jobs_parameters EXCEPT ![i] = r.table]
             /\ cursor' = [cursor EXCEPT ![i] = 1]
             /\ pc' = [pc EXCEPT ![i] = "enumerate"]
             /\ UNCHANGED <<exit_status, exception>>
        ELSE /\ Exit(i, 1, [kind |-> "AssertionError", job |-> 0])
             /\ UNCHANGED <<jobs_parameters, cursor>>
  /\ UNCHANGED <<inputVars, scanVars, fs, jobs, task, skipped, aggVars, drvVars>>

\* Invocations are numbered in the order they are started; one is started
\* only after the one before it has exited.
Start(i) ==
  /\ IF i = 1 THEN TRUE ELSE pc[i - 1] = "exited"
  /\ Launch(i)

\* IsPending without the existence test: every job of the table is listed
IsPendingAlways(dir, job_id) == TRUE

\* the test of the enumeration loop: the job has no result file
IsPending(dir, job_id) == ~Exists(dir, job_id)

\* one iteration of "for job_id in jobs_parameters"
Enumerate(i) ==
  /\ pc[i] = "enumerate"
  /\ cursor[i] <= Len(jobs_parameters[i])
  /\ LET entry == jobs_parameters[i][cursor[i]]
     IN jobs' = [jobs EXCEPT ![i] =
                   IF IsPending(fs, entry[1]) THEN Append(@, entry) ELSE @]
  /\ cursor' = [cursor EXCEPT ![i] = @ + 1]
  /\ UNCHANGED <<inputVars, scanVars, fs, pc, jobs_parameters, task, skipped, exit_status,
                 exception, aggVars, drvVars>>

\* the loop is over; the script enters joblib.Parallel(...)(...)
EnumerateDone(i) ==
  /\ pc[i] = "enumerate"
  /\ cursor[i] > Len(jobs_parameters[i])
  /\ pc' = [pc EXCEPT ![i] = "parallel"]
  /\ UNCHANGED <<inputVars, scanVars, fs, jobs_parameters, cursor, jobs, task, skipped,
                 exit_status, exception, aggVars, drvVars>>

Active == {"running", "saving"}

\* positions of the run_job calls of invocation i that are executing
Executing(i) == {k \in 1..Len(task[i]) : task[i][k] \in Active}
Failed(i) == {k \in 1..Len(task[i]) : task[i][k] = "failed"}

\* WorkerFree with the bound off by one
WorkerFreeOffByOne(i) == Cardinality(Executing(i)) + 1 < n_jobs

\* joblib's bound on concurrently executing calls
WorkerFree(i) == Cardinality(Executing(i)) < n_jobs

\* joblib hands the next call of the list, in list order, to a free worker;
\* run_job starts with its existence check, which only prints
Dispatch(i) ==
  /\ pc[i] = "parallel"
  /\ Len(task[i]) < Len(jobs[i])
  /\ WorkerFree(i)
  /\ LET job_id == jobs[i][Len(task[i]) + 1][1]
     IN skipped' = [skipped EXCEPT ![i] =
                      IF Exists(fs, job_id) THEN @ \cup {job_id} ELSE @]
  /\ task' = [task EXCEPT ![i] = Append(@, "running")]
  /\ UNCHANGED <<inputVars, scanVars, fs, pc, jobs_parameters, cursor, jobs, exit_status,
                 exception, aggVars, drvVars>>

\* what joblib does with the other calls when one call has raised: no further
\* call is dispatched and the executing ones are killed with their workers
AbortEverything(tasks) ==
  [k \in 1..Len(tasks) |-> IF tasks[k] \in Active THEN "killed" ELSE tasks[k]]

\* the simulation raises inside run_job. With n_jobs = 1 joblib runs the calls
\* inline, so the exception leaves Parallel and ends the script at once.
SimulationFailed(i, k) ==
  /\ pc[i] = "parallel"
  /\ k \in 1..Len(task[i])
  /\ task[i][k] = "running"
  /\ task' = [task EXCEPT ![i][k] = "failed"]
  /\ IF n_jobs = 1
     THEN Exit(i, 1, [kind |-> "SimulationFailed", job |-> jobs[i][k][1]])
     ELSE UNCHANGED <<pc, exit_status, exception>>
  /\ UNCHANGED <<inputVars, scanVars, fs, jobs_parameters, cursor, jobs, skipped, aggVars, drvVars>>

\* SaveOpen that writes only when the file is absent
SaveOpenIfAbsent(i, k) ==
  /\ pc[i] = "parallel"
  /\ k \in 1..Len(task[i])
  /\ task[i][k] = "running"
  /\ ~Exists(fs, jobs[i][k][1])
  /\ task' = [task EXCEPT ![i][k] = "saving"]
  /\ fs' = [fs EXCEPT ![jobs[i][k][1]] = [st |-> "partial", by |-> i]]
  /\ UNCHANGED <<inputVars, scanVars, pc, jobs_parameters, cursor, jobs, skipped, exit_status,
                 exception, aggVars, drvVars>>

\* run_job's simulation loop has run to its end and np.savez opens
\* {job_id}.npz for writing: the file exists, truncated
SaveOpen(i, k) ==
  /\ pc[i] = "parallel"
  /\ k \in 1..Len(task[i])
  /\ task[i][k] = "running"
  /\ task' = [task EXCEPT ![i][k] = "saving"]
  /\ fs' = [fs EXCEPT ![jobs[i][k][1]] = [st |-> "partial", by |-> i]]
  /\ UNCHANGED <<inputVars, scanVars, pc, jobs_parameters, cursor, jobs, skipped, exit_status,
                 exception, aggVars, drvVars>>

\* np.savez has written the five arrays and closed the archive
SaveClose(i, k) ==
  /\ pc[i] = "parallel"
  /\ k \in 1..Len(task[i])
  /\ task[i][k] = "saving"
  /\ task' = [task EXCEPT ![i][k] = "done"]
  /\ fs' = [fs EXCEPT ![jobs[i][k][1]] = [st |-> "complete", by |-> i]]
  /\ UNCHANGED <<inputVars, scanVars, pc, jobs_parameters, cursor, jobs, skipped, exit_status,
                 exception, aggVars, drvVars>>

\* Parallel, collecting the results, meets a call that raised: it aborts the
\* other calls and re-raises that call's exception, which ends the script
Abort(i) ==
  /\ pc[i] = "parallel"
  /\ n_jobs > 1
  /\ \E k \in Failed(i) :
       Exit(i, 1, [kind |-> "SimulationFailed", job |-> jobs[i][k][1]])
  /\ task' = [task EXCEPT ![i] = AbortEverything(@)]
  /\ UNCHANGED <<inputVars, scanVars, fs, jobs_parameters, cursor, jobs, skipped, aggVars, drvVars>>

\* every call of the list has returned: Parallel returns and the script ends
Finish(i) ==
  /\ pc[i] = "parallel"
  /\ Len(task[i]) = Len(jobs[i])
  /\ \A k \in 1..Len(task[i]) : task[i][k] = "done"
  /\ Exit(i, 0, NoException)
  /\ UNCHANGED <<inputVars, scanVars, fs, jobs_parameters, cursor, jobs, task, skipped, aggVars, drvVars>>

(***************************************************************************)
(* The aggregator script, plot_sz_phasediagram.py: the load, the scan grid *)
(* and the pass over the result files.                                     *)
(***************************************************************************)
\* floating-point cells of the grids and values of end_idx: a number n/d,
\* np.nan, np.infty or None
NaN == [k |-> "nan", n |-> 0, d |-> 1]
Infty == [k |-> "inf", n |-> 0, d |-> 1]
None == [k |-> "none", n |-> 0, d |-> 1]
Num(x) == [k |-> "num", n |-> x, d |-> 1]
IsNaN(v) == v.k = "nan"
IsInf(v) == v.k = "inf"
\* Divide without the division
DivideByOne(a, b) == IF IsNaN(a) \/ IsNaN(b) THEN NaN ELSE a

\* a / b of two cells, b a positive number or nan
Divide(a, b) == IF IsNaN(a) \/ IsNaN(b) THEN NaN ELSE [k |-> "num", n |-> a.n, d |-> b.n]

NoField == [field |-> "unset", job |-> 0]
NoThreshold == [num |-> 0, den |-> 1]
NoError == [kind |-> "none", line |-> 0]

\* THRESHOLD_SURVIVORS and THRESHOLD_ZOMBIES, the script's 5e-2 and 5e-5
\* scaled to a half and a quarter of the initial population
THRESHOLD_SURVIVORS == [num |-> 1, den |-> 2]
THRESHOLD_ZOMBIES == [num |-> 1, den |-> 4]
\* the greatest indices of xticks and yticks, the script's 30 and 16 scaled
\* to the model's grids, and the colormap's clip time, 40, in steps of DT
LastXTick == 1
LastYTick == 1
ClipTime == 2

InitAgg ==
  /\ aggPc = "idle"
  /\ aggTable = <<>>
  /\ aggCursor = 0
  /\ aggSeen = [j \in JobIds |-> "none"]
  /\ kill_rates = <<>>
  /\ fear_amplitudes = <<>>
  /\ pop_initial = <<>>
  /\ S_final = <<>>
  /\ Z_final = <<>>
  /\ t_end = <<>>
  /\ kill_index = 0
  /\ fear_index = 0
  /\ end_idx = None
  /\ target_field = NoField
  /\ THRESHOLD = NoThreshold
  /\ no_convergence = {}
  /\ aggError = NoError
  /\ outfile = "absent"

\* KillRates without set() and sorted(): the kill rates in table order
KillRatesUnsorted(table) == [k \in 1..Len(table) |-> table[k][2]]

\* the sets of the grid loop, sorted
KillRates(table) == Sorted({table[k][2] : k \in 1..Len(table)})
FearAmplitudes(table) == Sorted({table[k][3] : k \in 1..Len(table)})

\* Full with 0 in place of np.nan
FullZeros(kr, fa) == [c \in (1..Len(kr)) \X (1..Len(fa)) |-> Num(0)]

\* np.full((len(kill_rates), len(fear_amplitudes)), np.nan)
Full(kr, fa) == [c \in (1..Len(kr)) \X (1..Len(fa)) |-> NaN]

\* the script up to the fill loop: load the job table, build the scan grid
\* and the phasediagram buffers
AggStart ==
  /\ aggPc = "idle"
  /\ LET r == LoadTable(argFile)
     IN IF r.ok
        THEN /\ aggTable' = r.table
             /\ kill_rates' = KillRates(r.table)
             /\ fear_amplitudes' = FearAmplitudes(r.table)
             /\ pop_initial' = Full(KillRates(r.table), FearAmplitudes(r.table))
             /\ S_final' = Full(KillRates(r.table), FearAmplitudes(r.table))
             /\ Z_final' = Full(KillRates(r.table), FearAmplitudes(r.table))
             /\ t_end' = Full(KillRates(r.table), FearAmplitudes(r.table))
             /\ aggCursor' = 1
             /\ aggPc' = "loop"
             /\ UNCHANGED aggError
        ELSE /\ aggPc' = "failed"
             /\ aggError' = [kind |-> "AssertionError", line |-> 39]
             /\ UNCHANGED <<aggTable, kill_rates, fear_amplitudes, gridVars, aggCursor>>
  /\ UNCHANGED <<inputVars, scanVars, fs, schedVars, aggSeen, loopVars, outfile, drvVars>>

\* os.path.exists(datafile) of one iteration of the fill loop
AggExists ==
  /\ aggPc = "loop"
  /\ aggCursor <= Len(aggTable)
  /\ LET job_id == aggTable[aggCursor][1]
     IN IF Exists(fs, job_id)
        THEN /\ aggPc' = "load"
             /\ UNCHANGED <<aggCursor, aggSeen>>
        ELSE /\ aggSeen' = [aggSeen EXCEPT ![job_id] = "absent"]
             /\ aggCursor' = aggCursor + 1
             /\ UNCHANGED aggPc
  /\ UNCHANGED <<inputVars, scanVars, fs, schedVars, aggTable, kill_rates, fear_amplitudes, gridVars,
                 loopVars, aggError, outfile, drvVars>>

Abs(x) == IF x < 0 THEN -x ELSE x

\* ArgMin as the greatest index whose grid value does not exceed the value
ArgMinFloor(grid, value) ==
  IF \E k \in 1..Len(grid) : grid[k] <= value
  THEN CHOOSE k \in 1..Len(grid) :
         grid[k] <= value /\ \A m \in 1..Len(grid) : grid[m] <= value => m <= k
  ELSE 1

\* np.argmin(np.abs(grid - value)), counted from 1: the first index of the
\* least distance
ArgMin(grid, value) ==
  CHOOSE k \in 1..Len(grid) :
    /\ \A m \in 1..Len(grid) : Abs(grid[k] - value) <= Abs(grid[m] - value)
    /\ \A m \in 1..(k - 1) : Abs(grid[m] - value) > Abs(grid[k] - value)

\* value / pop > threshold and value / pop < threshold
Above(value, pop, threshold) == value * threshold.den > threshold.num * pop
Below(value, pop, threshold) == value * threshold.den < threshold.num * pop

\* the array that target_field is bound to
Array(field) == IF field.field = "S" THEN npz[field.job].S ELSE npz[field.job].Z

\* the script's variables that the loop body reads and writes
AggState ==
  [pop_initial |-> pop_initial, S_final |-> S_final, Z_final |-> Z_final, t_end |-> t_end,
   kill_index |-> kill_index, fear_index |-> fear_index, end_idx |-> end_idx,
   target_field |-> target_field, THRESHOLD |-> THRESHOLD,
   no_convergence |-> no_convergence, error |-> aggError]

\* AssignCell without the two asserts
AssignCellUnchecked(st, data) ==
  LET ki == ArgMin(kill_rates, data.kill_parameter)
      fi == ArgMin(fear_amplitudes, data.fear_amplitude)
      cell == <<ki, fi>>
  IN [st EXCEPT !.kill_index = ki, !.fear_index = fi,
                !.pop_initial[cell] = Num(data.S[1] + data.Z[1]),
                !.S_final[cell] = Num(Last(data.S)),
                !.Z_final[cell] = Num(Last(data.Z))]

\* lines 73-82: locate the cell, check that it is empty, write the
\* populations
AssignCell(st, data) ==
  LET ki == ArgMin(kill_rates, data.kill_parameter)
      fi == ArgMin(fear_amplitudes, data.fear_amplitude)
      cell == <<ki, fi>>
      located == [st EXCEPT !.kill_index = ki, !.fear_index = fi]
  IN IF ~IsNaN(st.S_final[cell])
     THEN [located EXCEPT !.error = [kind |-> "AssertionError", line |-> 76]]
     ELSE IF ~IsNaN(st.Z_final[cell])
     THEN [located EXCEPT !.error = [kind |-> "AssertionError", line |-> 77]]
     ELSE [located EXCEPT !.pop_initial[cell] = Num(data.S[1] + data.Z[1]),
                          !.S_final[cell] = Num(Last(data.S)),
                          !.Z_final[cell] = Num(Last(data.Z))]

\* SelectTarget with the two checks in the other order
SelectTargetZFirst(st, job_id, data) ==
  LET pop == data.S[1] + data.Z[1]
      afterZ == IF Below(Last(data.Z), pop, THRESHOLD_ZOMBIES)
                THEN [st EXCEPT !.target_field = [field |-> "Z", job |-> job_id],
                                !.THRESHOLD = THRESHOLD_ZOMBIES]
                ELSE st
  IN IF Below(Last(data.S), pop, THRESHOLD_SURVIVORS)
     THEN [afterZ EXCEPT !.target_field = [field |-> "S", job |-> job_id],
                         !.THRESHOLD = THRESHOLD_SURVIVORS]
     ELSE afterZ

\* lines 92-97: the two ifs that bind target_field and THRESHOLD
SelectTarget(st, job_id, data) ==
  LET pop == data.S[1] + data.Z[1]
      afterS == IF Below(Last(data.S), pop, THRESHOLD_SURVIVORS)
                THEN [st EXCEPT !.target_field = [field |-> "S", job |-> job_id],
                                !.THRESHOLD = THRESHOLD_SURVIVORS]
                ELSE st
  IN IF Below(Last(data.Z), pop, THRESHOLD_ZOMBIES)
     THEN [afterS EXCEPT !.target_field = [field |-> "Z", job |-> job_id],
                         !.THRESHOLD = THRESHOLD_ZOMBIES]
     ELSE afterS

\* Scan from the first sample upwards
ScanForward(field, pop, threshold, i) ==
  LET first == {k \in 0..i : Above(field[k + 1], pop, threshold)}
  IN IF first = {} THEN None
     ELSE Num((CHOOSE k \in first : \A m \in first : k <= m) + 1)

\* Scan with the first sample's index as the value when no sample is above
ScanDefault(field, pop, threshold, i) ==
  LET above == {k \in 0..i : Above(field[k + 1], pop, threshold)}
  IN IF above = {} THEN Num(0)
     ELSE Num((CHOOSE k \in above : \A m \in above : m <= k) + 1)

\* lines 99-103: the while loop from Python index i downwards; its value is
\* end_idx
RECURSIVE Scan(_, _, _, _)
Scan(field, pop, threshold, i) ==
  IF i < 0 THEN None
  ELSE IF Above(field[i + 1], pop, threshold) THEN Num(i + 1)
  ELSE Scan(field, pop, threshold, i - 1)

\* NoConvergence with either total above its threshold
NoConvergenceEither(data) ==
  \/ Above(Last(data.S), data.S[1] + data.Z[1], THRESHOLD_SURVIVORS)
  \/ Above(Last(data.Z), data.S[1] + data.Z[1], THRESHOLD_ZOMBIES)

\* line 88: both final totals are above their thresholds
NoConvergence(data) ==
  /\ Above(Last(data.S), data.S[1] + data.Z[1], THRESHOLD_SURVIVORS)
  /\ Above(Last(data.Z), data.S[1] + data.Z[1], THRESHOLD_ZOMBIES)

\* lines 87-104: end_idx of the loaded result
ExtractEnd(st, job_id, data) ==
  LET pop == data.S[1] + data.Z[1]
      i == Len(data.t) - 2
      reset == [st EXCEPT !.end_idx = None]
      sel == SelectTarget(reset, job_id, data)
  IN IF NoConvergence(data)
     THEN [reset EXCEPT !.end_idx = Infty, !.no_convergence = @ \cup {job_id}]
     ELSE IF i < 0
     THEN [sel EXCEPT !.error = [kind |-> "AssertionError", line |-> 104]]
     ELSE IF sel.target_field = NoField
     THEN [sel EXCEPT !.error = [kind |-> "NameError", line |-> 100]]
     ELSE IF i + 1 > Len(Array(sel.target_field))
     THEN [sel EXCEPT !.error = [kind |-> "IndexError", line |-> 100]]
     ELSE LET found == Scan(Array(sel.target_field), pop, sel.THRESHOLD, i)
          IN IF found = None
             THEN [sel EXCEPT !.error = [kind |-> "AssertionError", line |-> 104]]
             ELSE [sel EXCEPT !.end_idx = found]

\* line 105
StoreEnd(st, data) ==
  [st EXCEPT !.t_end[<<st.kill_index, st.fear_index>>] =
     IF IsInf(st.end_idx) THEN Infty ELSE Num(data.t[st.end_idx.n + 1])]

\* lines 72-105: the body of the fill loop on a loaded result
LoopBody(st, job_id, data) ==
  LET assigned == AssignCell(st, data)
      extracted == ExtractEnd(assigned, job_id, data)
  IN IF assigned.error # NoError THEN assigned
     ELSE IF extracted.error # NoError THEN extracted
     ELSE StoreEnd(extracted, data)

\* np.load(datafile) and the rest of the iteration: an archive that is
\* still being written cannot be read and the script ends with the exception
AggLoad ==
  /\ aggPc = "load"
  /\ LET job_id == aggTable[aggCursor][1]
         r == IF fs[job_id].st = "complete"
              THEN LoopBody(AggState, job_id, npz[job_id])
              ELSE [AggState EXCEPT !.error = [kind |-> "BadZipFile", line |-> 71]]
     IN /\ aggSeen' = [aggSeen EXCEPT ![job_id] = fs[job_id].st]
        /\ pop_initial' = r.pop_initial
        /\ S_final' = r.S_final
        /\ Z_final' = r.Z_final
        /\ t_end' = r.t_end
        /\ kill_index' = r.kill_index
        /\ fear_index' = r.fear_index
        /\ end_idx' = r.end_idx
        /\ target_field' = r.target_field
        /\ THRESHOLD' = r.THRESHOLD
        /\ no_convergence' = r.no_convergence
        /\ aggError' = r.error
        /\ IF r.error = NoError
           THEN /\ aggCursor' = aggCursor + 1
                /\ aggPc' = "loop"
           ELSE /\ aggPc' = "failed"
                /\ UNCHANGED aggCursor
  /\ UNCHANGED <<inputVars, scanVars, fs, schedVars, aggTable, kill_rates, fear_amplitudes, outfile,
                 drvVars>>

\* the fill loop is over: normalize relative to the initial population
AggDone ==
  /\ aggPc = "loop"
  /\ aggCursor > Len(aggTable)
  /\ S_final' = [c \in DOMAIN S_final |-> Divide(S_final[c], pop_initial[c])]
  /\ Z_final' = [c \in DOMAIN Z_final |-> Divide(Z_final[c], pop_initial[c])]
  /\ aggPc' = "done"
  /\ UNCHANGED <<inputVars, scanVars, fs, schedVars, aggTable, aggCursor, aggSeen, kill_rates,
                 fear_amplitudes, pop_initial, t_end, loopVars, aggError, outfile, drvVars>>

\* t_end[t_end > 40] = np.infty
Clip(grid) ==
  [c \in DOMAIN grid |-> IF IsInf(grid[c]) \/ (~IsNaN(grid[c]) /\ grid[c].n > ClipTime)
                         THEN Infty ELSE grid[c]]

\* PlotReached also after an exception
PlotReachedAnyway == aggPc \in {"done", "failed"}

\* the script reaches its plotting code only past the fill loop and the
\* normalisation
PlotReached == aggPc = "done"

\* the plotting code: the figure is saved unless the grid is too small for
\* the tick labels
AggPlot ==
  /\ PlotReached
  /\ t_end' = Clip(t_end)
  /\ IF Len(kill_rates) <= LastXTick
     THEN /\ aggPc' = "failed"
          /\ aggError' = [kind |-> "IndexError", line |-> 127]
          /\ UNCHANGED outfile
     ELSE IF Len(fear_amplitudes) <= LastYTick
     THEN /\ aggPc' = "failed"
          /\ aggError' = [kind |-> "IndexError", line |-> 129]
          /\ UNCHANGED outfile
     ELSE /\ aggPc' = "plotted"
          /\ outfile' = "written"
          /\ UNCHANGED aggError
  /\ UNCHANGED <<inputVars, scanVars, fs, schedVars, aggTable, aggCursor, aggSeen, kill_rates,
                 fear_amplitudes, pop_initial, S_final, Z_final, loopVars, drvVars>>

(***************************************************************************)
(* The driver: the body of run_job for one job. Time is counted in steps   *)
(* of DT; MIN_TIME and TIMEOUT are the script's 5 and 2000 scaled down.    *)
(* Population totals are in units of an eighth of N*N*MEAN_DENSITY and     *)
(* THRESHOLD is scaled to a quarter, so that a total can lie below, at and *)
(* above the threshold.                                                    *)
(***************************************************************************)
MIN_TIME == 2
TIMEOUT == 4
NominalTotal == 8
ThresholdNum == 1
ThresholdDen == 4
InitialS == 4
InitialZ == 3
\* the totals the stepper can report after a step
Totals == {1, 2, 3}

\* total / (N*N) / MEAN_DENSITY > THRESHOLD
AboveThreshold(total) == total * ThresholdDen > ThresholdNum * NominalTotal

\* LoopCondition without the minimum run time
LoopConditionNoMin(tt, SS, ZZ) ==
  /\ AboveThreshold(Last(ZZ))
  /\ AboveThreshold(Last(SS))
  /\ Last(tt) < TIMEOUT

\* LoopCondition without the timeout
LoopConditionNoTimeout(tt, SS, ZZ) ==
  \/ Last(tt) < MIN_TIME
  \/ /\ AboveThreshold(Last(ZZ))
     /\ AboveThreshold(Last(SS))

\* the condition of the while loop
LoopCondition(tt, SS, ZZ) ==
  \/ Last(tt) < MIN_TIME
  \/ /\ AboveThreshold(Last(ZZ))
     /\ AboveThreshold(Last(SS))
     /\ Last(tt) < TIMEOUT

NoResult == [t |-> <<>>, S |-> <<>>, Z |-> <<>>, kill_parameter |-> 0, fear_amplitude |-> 0]

InitDrv ==
  /\ drvPc = "start"
  /\ job = <<0, 0, 0>>
  /\ t = <<>>
  /\ S = <<>>
  /\ Z = <<>>
  /\ saved = NoResult

\* run_job is called for a job of the table; store_result(solver.get_result())
\* before the loop
DrvBegin ==
  /\ drvPc = "start"
  /\ \E k \in 1..Len(LoadTable(csvFile).table) : job' = LoadTable(csvFile).table[k]
  /\ t' = <<0>>
  /\ S' = <<InitialS>>
  /\ Z' = <<InitialZ>>
  /\ drvPc' = "loop"
  /\ UNCHANGED <<inputVars, scanVars, fs, schedVars, aggVars, saved>>

\* one iteration: add_time(DT), integrate(), store_result
DrvStep ==
  /\ drvPc = "loop"
  /\ LoopCondition(t, S, Z)
  /\ \E s \in Totals, z \in Totals :
       /\ t' = Append(t, Last(t) + 1)
       /\ S' = Append(S, s)
       /\ Z' = Append(Z, z)
  /\ UNCHANGED <<inputVars, scanVars, fs, schedVars, aggVars, drvPc, job, saved>>

\* integrate() raises: run_job ends without saving
DrvRaise ==
  /\ drvPc = "loop"
  /\ LoopCondition(t, S, Z)
  /\ drvPc' = "failed"
  /\ UNCHANGED <<inputVars, scanVars, fs, schedVars, aggVars, job, t, S, Z, saved>>

\* DrvSave with the two parameters stored under each other's name
DrvSaveSwapped ==
  /\ drvPc = "loop"
  /\ ~LoopCondition(t, S, Z)
  /\ saved' = [t |-> t, S |-> S, Z |-> Z, kill_parameter |-> job[3], fear_amplitude |-> job[2]]
  /\ drvPc' = "saved"
  /\ UNCHANGED <<inputVars, scanVars, fs, schedVars, aggVars, job, t, S, Z>>

\* the loop is left and the arrays are saved
DrvSave ==
  /\ drvPc = "loop"
  /\ ~LoopCondition(t, S, Z)
  /\ saved' = [t |-> t, S |-> S, Z |-> Z, kill_parameter |-> job[2], fear_amplitude |-> job[3]]
  /\ drvPc' = "saved"
  /\ UNCHANGED <<inputVars, scanVars, fs, schedVars, aggVars, job, t, S, Z>>

(***************************************************************************)
(* The cluster scan, sir_ddft_2d_scan.py.                                  *)
(***************************************************************************)
\* np.linspace(-30, -0, 31), here with 3 values
NumCsi == 3

\* np.linspace(a, b, n), values in tenths
Linspace(a, b, n) == [k \in 1..n |-> a + ((k - 1) * (b - a)) \div (n - 1)]

C_si == Linspace(-300, 0, NumCsi)
C_rel == Linspace(10, 30, MaxCrel)

\* JobId with the length of the other axis as the stride
JobIdOtherStride(i, j) == i * Len(C_si) + j

\* job.id = i*C_rel.shape[0] + j
JobId(i, j) == i * Len(C_rel) + j

\* the tuple (t, S, I, R) that sample returns for its arguments
Sample(c_si, c_rel) == [c_si |-> c_si, c_rel |-> c_rel]

InitCluster ==
  /\ scanPc = "submit"
  /\ scanI = 0
  /\ scanJ = 0
  /\ clusterJobs = <<>>
  /\ parameter_table = <<>>
  /\ tableFile = <<>>
  /\ collectIdx = 0
  /\ failures = <<>>
  /\ runFiles = {}

\* one iteration of the two nested submission loops
Submit ==
  /\ scanPc = "submit"
  /\ scanI < Len(C_si)
  /\ LET c_si == C_si[scanI + 1]
         c_rel == C_rel[scanJ + 1]
     IN /\ clusterJobs' = Append(clusterJobs,
                                 [id |-> JobId(scanI, scanJ), args |-> <<c_si, c_rel>>,
                                  status |-> "pending"])
        /\ parameter_table' = Append(parameter_table, <<c_si, c_rel>>)
  /\ IF scanJ + 1 < Len(C_rel)
     THEN scanJ' = scanJ + 1 /\ UNCHANGED scanI
     ELSE scanJ' = 0 /\ scanI' = scanI + 1
  /\ UNCHANGED <<inputVars, fs, schedVars, aggVars, drvVars, scanPc, tableFile, collectIdx,
                 failures, runFiles>>

\* the submission loops are over: np.save of the parameter table
SaveTable ==
  /\ scanPc = "submit"
  /\ scanI = Len(C_si)
  /\ tableFile' = parameter_table
  /\ collectIdx' = 1
  /\ scanPc' = "collect"
  /\ UNCHANGED <<inputVars, fs, schedVars, aggVars, drvVars, scanI, scanJ, clusterJobs,
                 parameter_table, failures, runFiles>>

\* on a node of the cluster sample returns (t, S, I, R)
SampleReturns(k) ==
  /\ k \in 1..Len(clusterJobs)
  /\ clusterJobs[k].status = "pending"
  /\ clusterJobs' = [clusterJobs EXCEPT ![k].status = "finished"]
  /\ UNCHANGED <<inputVars, fs, schedVars, aggVars, drvVars, scanPc, scanI, scanJ,
                 parameter_table, tableFile, collectIdx, failures, runFiles>>

\* on a node of the cluster sample raises
SampleRaises(k) ==
  /\ k \in 1..Len(clusterJobs)
  /\ clusterJobs[k].status = "pending"
  /\ clusterJobs' = [clusterJobs EXCEPT ![k].status = "exception"]
  /\ UNCHANGED <<inputVars, fs, schedVars, aggVars, drvVars, scanPc, scanI, scanJ,
                 parameter_table, tableFile, collectIdx, failures, runFiles>>

\* one iteration of the collection loop: job() waits for the job to end,
\* then the exception is printed or the result is saved as run_{job.id}
Collect ==
  /\ scanPc = "collect"
  /\ collectIdx <= Len(clusterJobs)
  /\ clusterJobs[collectIdx].status # "pending"
  /\ LET j == clusterJobs[collectIdx]
     IN IF j.status = "exception"
        THEN /\ failures' = Append(failures, j.id)
             /\ UNCHANGED runFiles
        ELSE /\ runFiles' = {f \in runFiles : f.id # j.id} \cup
                              {[id |-> j.id, result |-> Sample(j.args[1], j.args[2])]}
             /\ UNCHANGED failures
  /\ collectIdx' = collectIdx + 1
  /\ UNCHANGED <<inputVars, fs, schedVars, aggVars, drvVars, scanPc, scanI, scanJ, clusterJobs,
                 parameter_table, tableFile>>

\* the collection loop is over and the script ends
ScanEnd ==
  /\ scanPc = "collect"
  /\ collectIdx > Len(clusterJobs)
  /\ scanPc' = "done"
  /\ UNCHANGED <<inputVars, fs, schedVars, aggVars, drvVars, scanI, scanJ, clusterJobs,
                 parameter_table, tableFile, collectIdx, failures, runFiles>>

\* the archive run_job leaves for a job of the table when the survivors die
\* out at MIN_TIME
NominalParams(job_id) ==
  LET table == LoadTable(GoodFile).table
  IN table[CHOOSE k \in 1..Len(table) : table[k][1] = job_id]
NominalRun(job_id) ==
  [t |-> [k \in 1..(MIN_TIME + 1) |-> k - 1],
   S |-> [k \in 1..(MIN_TIME + 1) |->
            IF k = 1 THEN InitialS ELSE IF k = MIN_TIME + 1 THEN 1 ELSE 2],
   Z |-> [k \in 1..(MIN_TIME + 1) |-> InitialZ],
   kill_parameter |-> NominalParams(job_id)[2],
   fear_amplitude |-> NominalParams(job_id)[3]]

(***************************************************************************)
(* Specifications.                                                         *)
(***************************************************************************)
\* Spec: scheduler invocations run one after the other on an output
\* directory that earlier runs have left with any subset of result files.
\* The jobfile argument names ./phasediagram_jobs.csv itself.
InitRun ==
  /\ csvFile \in JobFiles
  /\ n_jobs \in 1..MaxW
  /\ npz = [j \in JobIds |-> NominalRun(j)]
  /\ fs \in [JobIds -> {Absent, Earlier}]
  /\ InitSched
  /\ InitAgg
  /\ InitDrv
  /\ InitCluster

Init ==
  /\ InitRun
  /\ argFile = csvFile

Next ==
  \/ \E i \in Invs : Start(i)
  \/ \E i \in Invs : Enumerate(i)
  \/ \E i \in Invs : EnumerateDone(i)
  \/ \E i \in Invs : Dispatch(i)
  \/ \E i \in Invs : \E k \in 1..Len(task[i]) : SimulationFailed(i, k)
  \/ \E i \in Invs : \E k \in 1..Len(task[i]) : SaveOpen(i, k)
  \/ \E i \in Invs : \E k \in 1..Len(task[i]) : SaveClose(i, k)
  \/ \E i \in Invs : Abort(i)
  \/ \E i \in Invs : Finish(i)

Spec == Init /\ [][Next]_vars

\* ReadSpec: the same, with one aggregator pass running at any time on a
\* jobfile argument that names any of the files.
InitRead ==
  /\ InitRun
  /\ argFile \in JobFiles

NextRead ==
  \/ Next
  \/ AggStart
  \/ AggExists
  \/ AggLoad
  \/ AggDone
  \/ AggPlot

ReadSpec == InitRead /\ [][NextRead]_vars

\* LoadSpec: each script is run once on any job-table file of up to MaxRows
\* rows; the scheduler runs its jobs inline (--jobs 1) on an empty directory.
InitLoad ==
  /\ csvFile \in AllFiles
  /\ argFile = csvFile
  /\ n_jobs = 1
  /\ npz = [j \in JobIds |-> NominalRun(j)]
  /\ fs = [j \in JobIds |-> Absent]
  /\ InitSched
  /\ InitAgg
  /\ InitDrv
  /\ InitCluster

NextLoad ==
  \/ Start(1)
  \/ Enumerate(1)
  \/ EnumerateDone(1)
  \/ Dispatch(1)
  \/ \E k \in 1..Len(task[1]) : SimulationFailed(1, k)
  \/ \E k \in 1..Len(task[1]) : SaveOpen(1, k)
  \/ \E k \in 1..Len(task[1]) : SaveClose(1, k)
  \/ Finish(1)
  \/ AggStart

LoadSpec == InitLoad /\ [][NextLoad]_vars

\* DriverSpec: one run of run_job's body against any stepper.
InitDriver ==
  /\ csvFile = GoodFile
  /\ argFile = GoodFile
  /\ n_jobs = 1
  /\ npz = [j \in JobIds |-> NominalRun(j)]
  /\ fs = [j \in JobIds |-> Absent]
  /\ InitSched
  /\ InitAgg
  /\ InitDrv
  /\ InitCluster

NextDriver ==
  \/ DrvBegin
  \/ DrvStep
  \/ DrvRaise
  \/ DrvSave

DriverSpec == InitDriver /\ [][NextDriver]_vars

\* The result files an aggregator pass may find. Populations are small
\* integers: a survivor total can lie below, at and above half of an initial
\* population, a zombie total below, at and above a quarter of it. The
\* first sample is one of FirstSamples, of initial population 4 or 5.
MaxSamples == 3
SLevels == {1, 2, 3}
ZLevels == {0, 1, 2}
FirstSamples == {<<3, 1>>, <<2, 2>>, <<3, 2>>}
Trajectories ==
  UNION {{tr \in [t : {[k \in 1..n |-> k - 1]}, S : [1..n -> SLevels], Z : [1..n -> ZLevels]] :
            <<tr.S[1], tr.Z[1]>> \in FirstSamples} : n \in 1..MaxSamples}
Archive(trajectory, kill, fear) ==
  [t |-> trajectory.t, S |-> trajectory.S, Z |-> trajectory.Z,
   kill_parameter |-> kill, fear_amplitude |-> fear]

\* stored parameters: the grid values of GoodFile, values next to them and
\* a value midway between two of them
StoredKills == {40, 41, 45, 49, 50}
StoredFears == {100, 101, 200}
\* the survivors die out, the zombies die out, neither does
SDiesOut == [t |-> <<0, 1, 2>>, S |-> <<3, 2, 1>>, Z |-> <<1, 2, 2>>]
ZDiesOut == [t |-> <<0, 1>>, S |-> <<3, 3>>, Z |-> <<2, 0>>]
BothPersist == [t |-> <<0, 1>>, S |-> <<3, 3>>, Z |-> <<1, 2>>]
\* the zombies end below a threshold that they never exceeded
NeverAbove == [t |-> <<0, 1>>, S |-> <<3, 3>>, Z |-> <<1, 0>>]
\* the stepper reports a final survivor total above the initial population
Grows == [t |-> <<0, 1>>, S |-> <<3, 5>>, Z |-> <<1, 1>>]

NextAgg ==
  \/ AggStart
  \/ AggExists
  \/ AggLoad
  \/ AggDone
  \/ AggPlot

\* GridSpec: one aggregator pass over an output directory that holds any
\* subset of the result files of GoodFile's jobs, the stored parameters of
\* jobs 1 and 2 being any of StoredKills and StoredFears.
InitGrid ==
  /\ csvFile = GoodFile
  /\ argFile = GoodFile
  /\ n_jobs = 1
  /\ fs \in [JobIds -> {Absent, Earlier}]
  /\ \E r1, r2 \in {Archive(SDiesOut, kill, fear) : kill \in StoredKills, fear \in StoredFears} :
       \E tr \in {SDiesOut, ZDiesOut, BothPersist, NeverAbove, Grows} :
         npz = [j \in JobIds |->
                  IF j = 1 THEN r1 ELSE IF j = 2 THEN r2
                  ELSE Archive(tr, NominalParams(j)[2], NominalParams(j)[3])]
  /\ InitSched
  /\ InitAgg
  /\ InitDrv
  /\ InitCluster

GridSpec == InitGrid /\ [][NextAgg]_vars

\* ScanSpec: one aggregator pass over results that carry their jobs' own
\* parameters; job 2's result is present, its trajectory is any of
\* Trajectories, and it is read after job 1's, if that is present.
InitScan ==
  /\ csvFile = GoodFile
  /\ argFile = GoodFile
  /\ n_jobs = 1
  /\ fs \in {f \in [JobIds -> {Absent, Earlier}] : f[2] = Earlier /\ f[3] = Absent}
  /\ \E tr1 \in {SDiesOut, ZDiesOut}, tr2 \in Trajectories :
       npz = [j \in JobIds |->
                Archive(IF j = 1 THEN tr1 ELSE IF j = 2 THEN tr2 ELSE SDiesOut,
                        NominalParams(j)[2], NominalParams(j)[3])]
  /\ InitSched
  /\ InitAgg
  /\ InitDrv
  /\ InitCluster

ScanSpec == InitScan /\ [][NextAgg]_vars

\* A pass of the aggregator over a directory in which every job of the
\* table has a result file that stores exactly the job's parameters of the
\* table.
InitExact ==
  /\ argFile \in AllFiles \cup {GoodFile}
  /\ csvFile = argFile
  /\ n_jobs = 1
  /\ npz = [j \in JobIds |->
              LET table == LoadTable(argFile).table
              IN IF j \in Keys(table)
                 THEN LET row == table[CHOOSE k \in 1..Len(table) : table[k][1] = j]
                      IN Archive(SDiesOut, row[2], row[3])
                 ELSE NominalRun(j)]
  /\ fs = [j \in JobIds |-> Earlier]
  /\ InitSched
  /\ InitAgg
  /\ InitDrv
  /\ InitCluster

ExactSpec == InitExact /\ [][NextAgg]_vars

\* One run of the cluster scan.
InitScanRun ==
  /\ csvFile = GoodFile
  /\ argFile = GoodFile
  /\ n_jobs = 1
  /\ npz = [j \in JobIds |-> NominalRun(j)]
  /\ fs = [j \in JobIds |-> Absent]
  /\ InitSched
  /\ InitAgg
  /\ InitDrv
  /\ InitCluster

NextCluster ==
  \/ Submit
  \/ SaveTable
  \/ \E k \in 1..Len(clusterJobs) : SampleReturns(k)
  \/ \E k \in 1..Len(clusterJobs) : SampleRaises(k)
  \/ Collect
  \/ ScanEnd

ClusterSpec == InitScanRun /\ [][NextCluster]_vars

\* Invocations of the scheduler that are started at any time, also while
\* others run, against the same output directory; one worker each, no
\* simulation raises, job 3 has its result from an earlier run.
InitRace ==
  /\ csvFile = GoodFile
  /\ argFile = GoodFile
  /\ n_jobs = 1
  /\ npz = [j \in JobIds |-> NominalRun(j)]
  /\ fs \in {f \in [JobIds -> {Absent, Earlier}] : f[1] = Absent /\ f[3] = Earlier}
  /\ InitSched
  /\ InitAgg
  /\ InitDrv
  /\ InitCluster

NextRace ==
  \/ \E i \in Invs : Launch(i)
  \/ \E i \in Invs : Enumerate(i)
  \/ \E i \in Invs : EnumerateDone(i)
  \/ \E i \in Invs : Dispatch(i)
  \/ \E i \in Invs : \E k \in 1..Len(task[i]) : SaveOpen(i, k)
  \/ \E i \in Invs : \E k \in 1..Len(task[i]) : SaveClose(i, k)
  \/ \E i \in Invs : Finish(i)

RaceSpec == InitRace /\ [][NextRace]_vars

\* FairSpec: Spec with the scheduler's own steps (the script and every
\* worker's run_job) scheduled fairly; simulations may still fail.
SchedulerStep(i) ==
  \/ Enumerate(i)
  \/ EnumerateDone(i)
  \/ Dispatch(i)
  \/ \E k \in 1..Len(task[i]) : SaveOpen(i, k)
  \/ \E k \in 1..Len(task[i]) : SaveClose(i, k)
  \/ Finish(i)

FairSpec == Spec /\ \A i \in Invs : WF_vars(SchedulerStep(i))

(***************************************************************************)
(* Properties.                                                             *)
(***************************************************************************)
JobIdOf(entry) == entry[1]
TableIds(table) == {table[k][1] : k \in 1..Len(table)}

\* the file of job_id was absent when invocation i enumerated it: it is still
\* absent, or it has been opened since by invocation i or a later one
AbsentAtEnumeration(i, job_id) == fs[job_id].st = "absent" \/ fs[job_id].by >= i

\* the entries of the table that the enumeration loop of i has passed
Enumerated(i) ==
  SubSeq(jobs_parameters[i], 1,
         IF pc[i] = "enumerate" THEN cursor[i] - 1 ELSE Len(jobs_parameters[i]))

\* C1: the list of jobs an invocation hands to joblib.Parallel holds exactly
\* the jobs of the table whose result file was absent when the enumeration
\* loop tested it, each once and in table order; run_job is started only for
\* jobs of that list, at most once per job, and an invocation that ends
\* normally has started it for every job of the list.
C1_IdempotentScheduling ==
  \A i \in Invs :
    /\ jobs[i] = SelectSeq(Enumerated(i), LAMBDA e : AbsentAtEnumeration(i, JobIdOf(e)))
    /\ \A a, b \in 1..Len(jobs[i]) : a # b => JobIdOf(jobs[i][a]) # JobIdOf(jobs[i][b])
    /\ Len(task[i]) <= Len(jobs[i])
    /\ exit_status[i] = 0 => Len(task[i]) = Len(jobs[i])

\* an invocation found some result files present and some absent, ran the
\* absent ones and ended normally
C1_Witness ==
  \E i \in Invs :
    /\ exit_status[i] = 0
    /\ Len(jobs[i]) >= 1
    /\ Len(jobs[i]) < Len(jobs_parameters[i])
    /\ Len(task[i]) = Len(jobs[i])

\* C2: under invocations run one after the other, no step changes a result
\* file that exists, other than the np.savez that opened it closing it.
C2_ResultWrittenOnce ==
  [][\A j \in JobIds :
       Exists(fs, j) =>
         \/ fs'[j] = fs[j]
         \/ /\ fs[j].st = "partial"
            /\ fs'[j] = [st |-> "complete", by |-> fs[j].by]]_vars

\* after a re-run that wrote a result, a result of an earlier run is still
\* the one that run wrote
C2_Witness ==
  /\ pc[2] = "exited"
  /\ \E j1, j2 \in JobIds :
       /\ fs[j1] = [st |-> "complete", by |-> 1]
       /\ fs[j2] = [st |-> "complete", by |-> 2]

\* C3: a result path the aggregator has found to exist holds a complete
\* result when the aggregator loads it, however its existence check and its
\* load interleave with the workers: the aggregator never reads a partially
\* written file.
C3_AtomicVisibility ==
  \A j \in JobIds : aggSeen[j] # "partial"

\* the table of invocation i loaded
Loaded(i) == pc[i] # "idle" /\ exception[i].kind # "AssertionError"

\* C4: when an invocation has ended, every job of its list whose own
\* simulation did not fail has run to completion and its file is complete.
C4_FailureIsolation ==
  \A i \in Invs :
    pc[i] = "exited" /\ Loaded(i) =>
      \A k \in 1..Len(jobs[i]) :
        \/ k \in Failed(i)
        \/ /\ k <= Len(task[i])
           /\ task[i][k] = "done"
           /\ fs[JobIdOf(jobs[i][k])].st = "complete"

\* the jobs named by what the invocation reports at its end
Reported(i) ==
  IF exception[i].kind = "SimulationFailed" THEN {exception[i].job} ELSE {}
FailedJobs(i) == {JobIdOf(jobs[i][k]) : k \in Failed(i)}

\* C5: an invocation that has ended has a non-zero status iff one of its jobs
\* failed, reports exactly the failed jobs, and every other job has finished.
C5_FailureReporting ==
  \A i \in Invs :
    pc[i] = "exited" /\ Loaded(i) =>
      /\ exit_status[i] # 0 <=> FailedJobs(i) # {}
      /\ Reported(i) = FailedJobs(i)
      /\ \A k \in 1..Len(jobs[i]) :
           k \notin Failed(i) => k <= Len(task[i]) /\ task[i][k] = "done"

\* C6: at most n_jobs calls execute at a time, no started call is cancelled,
\* and no job is started twice within an invocation.
C6_BoundedNoPreemption ==
  \A i \in Invs :
    /\ Cardinality(Executing(i)) <= n_jobs
    /\ \A k \in 1..Len(task[i]) : task[i][k] # "killed"
    /\ \A a, b \in 1..Len(task[i]) : a # b => JobIdOf(jobs[i][a]) # JobIdOf(jobs[i][b])

\* C7: under fair scheduling, an invocation whose table loaded eventually
\* sees one of its simulations fail or ends normally with a result file
\* present for every job of its table.
C7_Completion ==
  \A i \in Invs :
    (pc[i] = "enumerate") ~>
      \/ Failed(i) # {}
      \/ /\ pc[i] = "exited"
         /\ exit_status[i] = 0
         /\ \A j \in TableIds(jobs_parameters[i]) : Exists(fs, j)

\* an invocation that ran jobs in parallel ended normally with every file present
C7_Witness ==
  \E i \in Invs :
    /\ pc[i] = "exited"
    /\ exit_status[i] = 0
    /\ Len(jobs[i]) >= 2
    /\ n_jobs >= 2
    /\ \A j \in TableIds(jobs_parameters[i]) : Exists(fs, j)

RowId(row) == ParseInt(row[1])
RowPair(row) == <<ParseFloat(row[2]), ParseFloat(row[3])>>
RepeatsJobId(rows) == \E a, b \in 1..Len(rows) : a < b /\ RowId(rows[a]) = RowId(rows[b])
RepeatsPair(rows) == \E a, b \in 1..Len(rows) : a < b /\ RowPair(rows[a]) = RowPair(rows[b])
IsBijection(table) ==
  \A a, b \in 1..Len(table) :
    a # b => table[a][1] # table[b][1] /\ <<table[a][2], table[a][3]>> # <<table[b][2], table[b][3]>>

\* C8: a file that repeats a job id or a parameter pair ends the scheduler at
\* the load with no job listed, none dispatched and no result file written,
\* and ends the aggregator with no grid built; a table that loaded holds all
\* rows of its file and is a bijection between job ids and parameter pairs.
C8_TableValidation ==
  /\ RepeatsJobId(csvFile) \/ RepeatsPair(csvFile) =>
       /\ \A i \in Invs :
            /\ pc[i] \in {"idle", "exited"}
            /\ pc[i] = "exited" => exit_status[i] = 1 /\ exception[i].kind = "AssertionError"
            /\ jobs_parameters[i] = <<>> /\ jobs[i] = <<>> /\ task[i] = <<>>
       /\ \A j \in JobIds : ~Exists(fs, j)
  /\ RepeatsJobId(argFile) \/ RepeatsPair(argFile) =>
       /\ aggPc \in {"idle", "failed"}
       /\ aggTable = <<>> /\ kill_rates = <<>> /\ fear_amplitudes = <<>>
  /\ \A i \in Invs :
       Loaded(i) => Len(jobs_parameters[i]) = Len(csvFile) /\ IsBijection(jobs_parameters[i])
  /\ aggPc = "loop" => Len(aggTable) = Len(argFile) /\ IsBijection(aggTable)

\* both scripts have failed at the load of a file that gives one parameter
\* pair, written in two ways, to two job ids
C8_Witness ==
  /\ RepeatsPair(csvFile) /\ ~RepeatsJobId(csvFile)
  /\ \E a, b \in 1..Len(csvFile) : a # b /\ csvFile[a][2] # csvFile[b][2]
  /\ pc[1] = "exited"
  /\ aggPc = "failed"

StrictlyAscending(seq) == \A a, b \in 1..Len(seq) : a < b => seq[a] < seq[b]
Range(seq) == {seq[k] : k \in 1..Len(seq)}

\* C9: for a table that loaded, kill_rates and fear_amplitudes are strictly
\* ascending and hold exactly the values that occur in the table.
C9_GridAscending ==
  aggPc = "loop" =>
    /\ StrictlyAscending(kill_rates)
    /\ StrictlyAscending(fear_amplitudes)
    /\ Range(kill_rates) = {aggTable[k][2] : k \in 1..Len(aggTable)}
    /\ Range(fear_amplitudes) = {aggTable[k][3] : k \in 1..Len(aggTable)}

\* the grid of a table whose rows come in descending kill rate
C9_Witness ==
  /\ aggPc = "loop"
  /\ Len(aggTable) >= 2
  /\ aggTable[1][2] > aggTable[2][2]
  /\ Len(kill_rates) >= 2

\* the stopping rule at sample k
StopsAt(k) ==
  /\ t[k] >= MIN_TIME
  /\ \/ ~AboveThreshold(Z[k])
     \/ ~AboveThreshold(S[k])
     \/ t[k] >= TIMEOUT

\* C10: no sample before the last one satisfies the stopping rule and each
\* follows its predecessor by DT; the run is saved only at a sample that
\* satisfies the rule, and while the last sample does not satisfy it the
\* driver can take another step.
C10_StoppingRule ==
  /\ \A k \in 1..(Len(t) - 1) : ~StopsAt(k) /\ t[k + 1] = t[k] + 1
  /\ drvPc = "saved" => StopsAt(Len(t)) /\ saved.t = t /\ saved.S = S /\ saved.Z = Z
  /\ drvPc = "loop" /\ ~StopsAt(Len(t)) => ENABLED DrvStep
  /\ drvPc = "loop" /\ StopsAt(Len(t)) => ~ENABLED DrvStep

\* a saved run that went on past a sample below the threshold, taken before
\* MIN_TIME, and ended before TIMEOUT
C10_Witness ==
  /\ drvPc = "saved"
  /\ Last(t) < TIMEOUT
  /\ \E k \in 1..(Len(t) - 1) : ~AboveThreshold(Z[k])

\* the two terminal states of a run, read off the last saved sample
Converged(r) ==
  /\ Last(r.t) >= MIN_TIME
  /\ ~AboveThreshold(Last(r.S)) \/ ~AboveThreshold(Last(r.Z))
TimedOut(r) ==
  /\ Last(r.t) >= TIMEOUT
  /\ AboveThreshold(Last(r.S)) /\ AboveThreshold(Last(r.Z))
\* the arrays of a saved archive other than the trajectory and the parameters
TagKeys(r) == DOMAIN r \ {"t", "S", "Z", "kill_parameter", "fear_amplitude"}

\* C11: the output of every saved run carries a terminal state tag, and
\* exactly one of CONVERGED and TIMED_OUT applies to its last sample.
C11_TerminalStateTag ==
  drvPc = "saved" =>
    /\ Converged(saved) # TimedOut(saved)
    /\ TagKeys(saved) # {}

\* the job whose result the fill loop is at
CurrentJob == aggTable[aggCursor][1]
\* the fill loop is about to read a complete result file
Loading == aggPc = "load" /\ fs[CurrentJob].st = "complete"
\* no grid value is nearer to the value than grid[k]
Nearest(grid, value, k) ==
  \A m \in 1..Len(grid) : Abs(grid[k] - value) <= Abs(grid[m] - value)
\* the value is less than half the spacing away from grid[k]
WithinHalfSpacing(grid, value, k) ==
  \A m \in {k - 1, k + 1} \cap (1..Len(grid)) :
    2 * Abs(value - grid[k]) < Abs(grid[m] - grid[k])

\* C12: a loaded result is placed at grid indices whose values are nearest to
\* its stored parameters; stored parameters less than half the spacing away
\* from a grid point select that grid point; and the result is written to
\* that cell, past the two asserts, whenever the cell is still empty.
C12_NearestMatch ==
  [][Loading =>
       LET data == npz[CurrentJob]
           cell == <<kill_index', fear_index'>>
       IN /\ Nearest(kill_rates, data.kill_parameter, kill_index')
          /\ Nearest(fear_amplitudes, data.fear_amplitude, fear_index')
          /\ \A k \in 1..Len(kill_rates) :
               WithinHalfSpacing(kill_rates, data.kill_parameter, k) => kill_index' = k
          /\ \A f \in 1..Len(fear_amplitudes) :
               WithinHalfSpacing(fear_amplitudes, data.fear_amplitude, f) => fear_index' = f
          /\ IsNaN(S_final[cell]) /\ IsNaN(Z_final[cell]) =>
               /\ aggError'.line \notin {76, 77}
               /\ pop_initial'[cell] = Num(data.S[1] + data.Z[1])
               /\ S_final'[cell] = Num(Last(data.S))
               /\ Z_final'[cell] = Num(Last(data.Z))]_vars

\* job 2's result, stored with a kill rate that has drifted off the grid
\* value 4 and a fear amplitude of 20, has been written to the cell of the
\* first kill rate and the second fear amplitude
C12_Witness ==
  /\ aggSeen[2] = "complete"
  /\ aggCursor = 3
  /\ npz[2].kill_parameter = 41
  /\ npz[2].fear_amplitude = 200
  /\ kill_index = 1
  /\ fear_index = 2
  /\ S_final[<<1, 2>>] = Num(Last(npz[2].S))
  /\ aggError = NoError

\* an earlier result of the pass has been written to the cell
Filled(cell) == ~IsNaN(pop_initial[cell])

\* C13: when a loaded result maps to a cell that an earlier result of the
\* pass has filled, the script ends there with the assertion's error and the
\* grids stay as they were; and reading a result never changes a cell that
\* is already filled.
C13_CollisionDetection ==
  [][Loading =>
       /\ Filled(<<kill_index', fear_index'>>) =>
            /\ aggPc' = "failed"
            /\ aggError' = [kind |-> "AssertionError", line |-> 76]
            /\ UNCHANGED <<gridVars, aggCursor, outfile>>
       /\ \A cell \in DOMAIN pop_initial :
            Filled(cell) =>
              /\ pop_initial'[cell] = pop_initial[cell]
              /\ S_final'[cell] = S_final[cell]
              /\ Z_final'[cell] = Z_final[cell]
              /\ t_end'[cell] = t_end[cell]]_vars

\* job 3's result maps to the cell that holds job 1's different final
\* totals: the pass has ended at job 3 and the cell still holds job 1's
C13_Witness ==
  /\ aggPc = "failed"
  /\ aggCursor = 3
  /\ aggError = [kind |-> "AssertionError", line |-> 76]
  /\ aggSeen[1] = "complete"
  /\ Last(npz[3].Z) # Last(npz[1].Z)
  /\ S_final[<<kill_index, fear_index>>] = Num(Last(npz[1].S))
  /\ Z_final[<<kill_index, fear_index>>] = Num(Last(npz[1].Z))

\* the normalised final totals of the job's result stand in some cell
Folded(job_id) ==
  LET data == npz[job_id]
      pop == data.S[1] + data.Z[1]
  IN /\ aggSeen[job_id] = "complete"
     /\ \E cell \in DOMAIN S_final :
          /\ S_final[cell] = Divide(Num(Last(data.S)), Num(pop))
          /\ Z_final[cell] = Divide(Num(Last(data.Z)), Num(pop))
          /\ ~IsNaN(t_end[cell])

\* C14: a pass that has ended with an exception has written no figure
\* file, and a figure file is written only by a pass that raised nothing
\* and has folded in the result of every job whose file is present.
C14_AllOrNothing ==
  /\ aggPc = "failed" => outfile = "absent"
  /\ aggError # NoError => aggPc = "failed"
  /\ outfile = "written" =>
       /\ aggPc = "plotted"
       /\ \A j \in TableIds(aggTable) : Exists(fs, j) => Folded(j)

\* the pass has ended at job 3, whose zombie series never exceeded its
\* threshold, after job 1's result was written to the grids: no figure file
C14_Witness ==
  /\ aggPc = "failed"
  /\ aggCursor = 3
  /\ aggError = [kind |-> "AssertionError", line |-> 104]
  /\ aggSeen[1] = "complete"
  /\ \E cell \in DOMAIN S_final : ~IsNaN(t_end[cell])
  /\ outfile = "absent"

\* current_pop_initial of a result
InitialTotal(data) == data.S[1] + data.Z[1]
\* both final fractions are strictly above their thresholds
BothAbove(data) ==
  /\ Last(data.S) * THRESHOLD_SURVIVORS.den > THRESHOLD_SURVIVORS.num * InitialTotal(data)
  /\ Last(data.Z) * THRESHOLD_ZOMBIES.den > THRESHOLD_ZOMBIES.num * InitialTotal(data)

SBreach(data) ==
  Last(data.S) * THRESHOLD_SURVIVORS.den < THRESHOLD_SURVIVORS.num * InitialTotal(data)
ZBreach(data) ==
  Last(data.Z) * THRESHOLD_ZOMBIES.den < THRESHOLD_ZOMBIES.num * InitialTotal(data)
\* sample i (a Python index) of the series is above the threshold
SampleAbove(series, i, data, threshold) ==
  series[i + 1] * threshold.den > threshold.num * InitialTotal(data)
\* i is the last index before the final sample at which the series is above
\* the threshold
LastAbove(series, i, data, threshold) ==
  /\ i \in 0..(Len(data.t) - 2)
  /\ SampleAbove(series, i, data, threshold)
  /\ \A m \in (i + 1)..(Len(data.t) - 1) : ~SampleAbove(series, m, data, threshold)

\* C16: when a breach is detected at the final sample and the result is
\* read without an exception, end_idx is i + 1 and t_end is t[i + 1] for the
\* greatest index i in 0..n-2 at which the target series is above the
\* threshold: sample i is above it and the samples from i + 1 to n - 1 are
\* at or below it.
C16_BackwardScan ==
  [][Loading =>
       LET data == npz[CurrentJob]
           cell == <<kill_index', fear_index'>>
       IN (SBreach(data) \/ ZBreach(data)) /\ aggError' = NoError =>
            /\ target_field'.job = CurrentJob
            /\ end_idx'.k = "num"
            /\ LastAbove(Array(target_field'), end_idx'.n - 1, data, THRESHOLD')
            /\ t_end'[cell] = Num(data.t[end_idx'.n + 1])]_vars

\* job 2's survivors are above the threshold at samples 0 and 1 and below
\* it at the last sample 2: end_idx is 2 and the end time is t[2]
C16_Witness ==
  /\ aggSeen[2] = "complete"
  /\ aggCursor = 3
  /\ aggError = NoError
  /\ Len(npz[2].t) = 3
  /\ SBreach(npz[2]) /\ ~ZBreach(npz[2])
  /\ SampleAbove(npz[2].S, 0, npz[2], THRESHOLD_SURVIVORS)
  /\ SampleAbove(npz[2].S, 1, npz[2], THRESHOLD_SURVIVORS)
  /\ end_idx = Num(2)
  /\ t_end[<<1, 2>>] = Num(npz[2].t[3])

\* C17: whenever the non-convergence test is false for a loaded result, the
\* scan's target series is one of that result's own series, its final
\* fraction is at or below the threshold that goes with it, and the scan
\* runs on it: no unbound or foreign series is read.
C17_BreachSelection ==
  [][Loading =>
       LET data == npz[CurrentJob]
       IN ~BothAbove(data) =>
            /\ target_field'.job = CurrentJob
            /\ THRESHOLD' = IF target_field'.field = "S" THEN THRESHOLD_SURVIVORS
                            ELSE THRESHOLD_ZOMBIES
            /\ ~SampleAbove(Array(target_field'), Len(data.t) - 1, data, THRESHOLD')
            /\ aggError'.kind \notin {"NameError", "IndexError"}]_vars

OwnTarget(data) == IF ZBreach(data) THEN data.Z ELSE data.S
OwnThreshold(data) == IF ZBreach(data) THEN THRESHOLD_ZOMBIES ELSE THRESHOLD_SURVIVORS

\* C19: when a breach is detected at the final sample and the target series
\* is above its threshold at no index from 0 to n-2, the script ends there
\* with the error of the assert on end_idx, and no cell of t_end is written.
C19_EndTimeNotFound ==
  [][Loading =>
       LET data == npz[CurrentJob]
       IN /\ SBreach(data) \/ ZBreach(data)
          /\ \A i \in 0..(Len(data.t) - 2) :
               ~SampleAbove(OwnTarget(data), i, data, OwnThreshold(data))
          => /\ aggPc' = "failed"
             /\ aggError' = [kind |-> "AssertionError", line |-> 104]
             /\ end_idx' = None
             /\ UNCHANGED <<t_end, aggCursor, outfile>>]_vars

\* job 2's zombies are at their threshold at sample 0 and below it at the
\* last sample 1: the pass has ended at job 2 and its t_end cell is as
\* np.full left it
C19_Witness ==
  /\ aggPc = "failed"
  /\ aggCursor = 2
  /\ aggError = [kind |-> "AssertionError", line |-> 104]
  /\ Len(npz[2].t) = 2
  /\ ZBreach(npz[2])
  /\ ~SampleAbove(npz[2].Z, 0, npz[2], THRESHOLD_ZOMBIES)
  /\ target_field = [field |-> "Z", job |-> 2]
  /\ IsNaN(t_end[<<1, 2>>])
  /\ ~IsNaN(S_final[<<1, 2>>])

\* the cell a job's result file maps to, and the jobs of the table whose
\* present result file maps to a cell
CellOf(job_id) ==
  <<ArgMin(kill_rates, npz[job_id].kill_parameter),
    ArgMin(fear_amplitudes, npz[job_id].fear_amplitude)>>
PresentAt(cell) == {j \in TableIds(aggTable) : Exists(fs, j) /\ CellOf(j) = cell}

\* C20: after a pass that went through the fill loop and the normalisation,
\* a cell to which no present result file maps is NaN in S_final, Z_final
\* and t_end, and a cell to which one maps is NaN in none of them; a job
\* whose file is absent was skipped, and the result of a job whose file is
\* present stands in its cell and in no other.
C20_AbsenceIsNaN ==
  aggPc \in {"done", "plotted"} =>
    /\ aggError = NoError
    /\ \A cell \in DOMAIN S_final :
         IF PresentAt(cell) = {}
         THEN IsNaN(S_final[cell]) /\ IsNaN(Z_final[cell]) /\ IsNaN(t_end[cell])
         ELSE ~IsNaN(S_final[cell]) /\ ~IsNaN(Z_final[cell]) /\ ~IsNaN(t_end[cell])
    /\ \A j \in TableIds(aggTable) :
         IF Exists(fs, j)
         THEN /\ aggSeen[j] = "complete"
              /\ PresentAt(CellOf(j)) = {j}
              /\ S_final[CellOf(j)] =
                   Divide(Num(Last(npz[j].S)), Num(npz[j].S[1] + npz[j].Z[1]))
              /\ Z_final[CellOf(j)] =
                   Divide(Num(Last(npz[j].Z)), Num(npz[j].S[1] + npz[j].Z[1]))
         ELSE aggSeen[j] = "absent"

\* the pass is over with job 2's file absent: the cells of jobs 1 and 3 are
\* filled, job 2's cell and the cell of no job are NaN
C20_Witness ==
  /\ aggPc = "plotted"
  /\ aggSeen = [j \in JobIds |-> IF j = 2 THEN "absent" ELSE "complete"]
  /\ ~IsNaN(S_final[<<1, 1>>]) /\ ~IsNaN(t_end[<<1, 1>>])
  /\ ~IsNaN(Z_final[<<2, 1>>]) /\ ~IsNaN(t_end[<<2, 1>>])
  /\ IsNaN(S_final[<<1, 2>>]) /\ IsNaN(Z_final[<<1, 2>>]) /\ IsNaN(t_end[<<1, 2>>])
  /\ IsNaN(S_final[<<2, 2>>]) /\ IsNaN(Z_final[<<2, 2>>]) /\ IsNaN(t_end[<<2, 2>>])

\* C21: in every state of the pass, the state in which an exception has
\* ended it included, each cell is NaN in S_final, Z_final and t_end or in
\* none of them.
C21_NoPartialCell ==
  \A cell \in DOMAIN S_final :
    \/ IsNaN(S_final[cell]) /\ IsNaN(Z_final[cell]) /\ IsNaN(t_end[cell])
    \/ ~IsNaN(S_final[cell]) /\ ~IsNaN(Z_final[cell]) /\ ~IsNaN(t_end[cell])

\* the pass went through the fill loop and the normalisation
Normalised == aggPc \in {"done", "plotted"}
\* the quotient of a final total and the initial population of a result
Quotient(final, data) == [k |-> "num", n |-> final, d |-> data.S[1] + data.Z[1]]
\* a quotient n/d lies in [0,1]
InUnitInterval(v) == 0 <= v.n /\ v.n <= v.d

AloneState ==
  [AggState EXCEPT !.pop_initial = Full(kill_rates, fear_amplitudes),
                   !.S_final = Full(kill_rates, fear_amplitudes),
                   !.Z_final = Full(kill_rates, fear_amplitudes),
                   !.t_end = Full(kill_rates, fear_amplitudes),
                   !.end_idx = None, !.target_field = NoField,
                   !.THRESHOLD = NoThreshold, !.no_convergence = {},
                   !.error = NoError]
\* the outcome of the fill loop's body on the current result in that pass
Alone == LoopBody(AloneState, CurrentJob, npz[CurrentJob])

\* C23: the pass that loads a job's result after other results and the pass
\* that finds this result alone both fail on it, or both fill the job's cell
\* with the same S_final, Z_final and t_end.
C23_CellIndependence ==
  [][Loading =>
       /\ (aggError' = NoError) <=> (Alone.error = NoError)
       /\ aggError' = NoError =>
            LET cell == <<kill_index', fear_index'>>
            IN /\ cell = <<Alone.kill_index, Alone.fear_index>>
               /\ S_final'[cell] = Alone.S_final[cell]
               /\ Z_final'[cell] = Alone.Z_final[cell]
               /\ t_end'[cell] = Alone.t_end[cell]]_vars

\* max(t_min, t_max) in steps of DT
MaxTime == IF MIN_TIME > TIMEOUT THEN MIN_TIME ELSE TIMEOUT

\* C24: the driver's loop runs at most max(t_min, t_max)/DT times: a run at
\* or past that time can only leave the loop, and a saved trajectory ends at
\* a time that is at least t_min and less than max(t_min, t_max) + DT, with
\* at most max(t_min, t_max)/DT + 2 samples.
C24_BoundedRun ==
  /\ drvPc = "loop" =>
       /\ Len(t) <= MaxTime + 1
       /\ Last(t) <= MaxTime
       /\ Last(t) >= MaxTime => ~ENABLED DrvStep /\ ENABLED DrvSave
       /\ ENABLED DrvStep \/ ENABLED DrvSave
  /\ drvPc = "saved" =>
       /\ Last(saved.t) >= MIN_TIME
       /\ Last(saved.t) < MaxTime + 1
       /\ Len(saved.t) <= MaxTime + 2

\* a run that stayed above the threshold is saved at the timeout
C24_Witness ==
  /\ drvPc = "saved"
  /\ Last(saved.t) = TIMEOUT
  /\ Len(saved.t) = TIMEOUT + 1
  /\ AboveThreshold(Last(saved.S)) /\ AboveThreshold(Last(saved.Z))

\* the three sequences of a trajectory
WellFormed(tt, SS, ZZ) ==
  /\ Len(tt) >= 1
  /\ Len(SS) = Len(tt)
  /\ Len(ZZ) = Len(tt)
  /\ tt[1] = 0
  /\ \A a, b \in 1..Len(tt) : a < b => tt[a] < tt[b]

\* C25: from the first store_result on t, S and Z have the same length of at
\* least 1, t starts at 0 and increases strictly; an iteration appends one
\* sample, taken one DT later, to each; the saved result holds the three
\* sequences and the job's kill_rate and fear_amplitude.
C25_Trajectory ==
  [][/\ drvPc' # "start" => WellFormed(t', S', Z')
     /\ (drvPc = "loop" /\ drvPc' = "loop") =>
          /\ Len(t') = Len(t) + 1
          /\ SubSeq(t', 1, Len(t)) = t
          /\ SubSeq(S', 1, Len(S)) = S
          /\ SubSeq(Z', 1, Len(Z)) = Z
          /\ Last(t') = Last(t) + 1
     /\ (drvPc = "loop" /\ drvPc' = "saved") =>
          /\ saved'.t = t /\ saved'.S = S /\ saved'.Z = Z
          /\ \E k \in 1..Len(LoadTable(csvFile).table) :
               /\ job = LoadTable(csvFile).table[k]
               /\ saved'.kill_parameter = LoadTable(csvFile).table[k][2]
               /\ saved'.fear_amplitude = LoadTable(csvFile).table[k][3]]_vars

\* a run of job 3 is saved after more than two iterations
C25_Witness ==
  /\ drvPc = "saved"
  /\ job[1] = 3
  /\ Len(saved.t) > 3
  /\ saved.kill_parameter = 50 /\ saved.fear_amplitude = 100

\* C26: a job for which run_job found the result file present on entry is
\* not simulated to the end by that call and its file is not written by it.
C26_WorkerSkip ==
  \A i \in Invs : \A k \in 1..Len(task[i]) :
    jobs[i][k][1] \in skipped[i] =>
      /\ task[i][k] \notin {"saving", "done"}
      /\ fs[jobs[i][k][1]].by # i

\* C27: between concurrent invocations there is no mutual exclusion on a
\* job: the enumeration lists every job whose file is absent, whether or not
\* another invocation is executing it, and a call that has run its simulation
\* can always write the job's file, whether or not the file exists by then.
C27_NoMutualExclusion ==
  [][\A i \in Invs :
       /\ (/\ pc[i] = "enumerate"
           /\ cursor'[i] = cursor[i] + 1
           /\ ~Exists(fs, jobs_parameters[i][cursor[i]][1])) =>
            jobs'[i] = Append(jobs[i], jobs_parameters[i][cursor[i]])
       /\ \A k \in 1..Len(task[i]) :
            (pc[i] = "parallel" /\ task[i][k] = "running") => ENABLED SaveOpen(i, k)]_vars

\* two invocations both found job 1's file absent, on enumeration and on
\* entry of run_job, both simulated job 1 and both wrote 1.npz
C27_Witness ==
  /\ jobs[1] # <<>> /\ jobs[2] # <<>>
  /\ jobs[1][1][1] = 1 /\ jobs[2][1][1] = 1
  /\ 1 \notin skipped[1] /\ 1 \notin skipped[2]
  /\ Len(task[1]) >= 1 /\ Len(task[2]) >= 1
  /\ task[1][1] = "done" /\ task[2][1] = "done"
  /\ fs[1] = [st |-> "complete", by |-> 2]

\* the cell the nearest match gives the job of the table's k-th entry
EntryCell(k) ==
  <<ArgMin(kill_rates, npz[aggTable[k][1]].kill_parameter),
    ArgMin(fear_amplitudes, npz[aggTable[k][1]].fear_amplitude)>>

\* C28: when every result file stores exactly its job's parameters of the
\* table, the nearest match puts each job at the grid position of its table
\* parameters, no other job of the table has that cell, and neither
\* collision assert fails.
C28_NoCollisionWithoutDrift ==
  [][Loading =>
       /\ kill_rates[kill_index'] = aggTable[aggCursor][2]
       /\ fear_amplitudes[fear_index'] = aggTable[aggCursor][3]
       /\ EntryCell(aggCursor) = <<kill_index', fear_index'>>
       /\ \A k \in 1..Len(aggTable) :
            k # aggCursor => EntryCell(k) # EntryCell(aggCursor)
       /\ aggError'.line \notin {76, 77}]_vars

\* the pass over the 3-job table has filled three different cells of the
\* 2 x 2 grid
C28_Witness ==
  /\ argFile = GoodFile
  /\ aggPc = "done"
  /\ \A j \in JobIds : aggSeen[j] = "complete"
  /\ Cardinality({EntryCell(k) : k \in 1..Len(aggTable)}) = 3
  /\ Cardinality({c \in DOMAIN S_final : ~IsNaN(S_final[c])}) = 3

\* total / (S[0] + Z[0]) > THRESHOLD, from the saved trajectory
AboveOfInitial(total, r) == total * ThresholdDen > ThresholdNum * (r.S[1] + r.Z[1])

\* C29: the driver's fractions are taken of the initial total S[0] + Z[0],
\* the aggregator's divisor, and the total whose fraction ended a saved run
\* is at or below the threshold as a fraction of the saved S[0] + Z[0].
C29_SameNormalisation ==
  drvPc = "saved" =>
    /\ NominalTotal = saved.S[1] + saved.Z[1]
    /\ ~AboveThreshold(Last(saved.S)) => ~AboveOfInitial(Last(saved.S), saved)
    /\ ~AboveThreshold(Last(saved.Z)) => ~AboveOfInitial(Last(saved.Z), saved)

\* C30: an invocation of the scheduler works on the table of the file named
\* by its jobfile argument, or ends with the assertion error of that file's
\* load; it is the table the aggregator loads from the same argument.
C30_JobfileArgument ==
  /\ \A i \in Invs :
       pc[i] # "idle" =>
         IF LoadTable(argFile).ok
         THEN /\ jobs_parameters[i] = LoadTable(argFile).table
              /\ exception[i].kind # "AssertionError"
         ELSE /\ pc[i] = "exited"
              /\ exception[i].kind = "AssertionError"
  /\ \A i \in Invs :
       (pc[i] \in {"enumerate", "parallel"} /\ aggPc \in {"loop", "load", "done", "plotted"}) =>
         jobs_parameters[i] = aggTable

\* the jobs the collection loop has been through
Collected == 1..(IF scanPc = "submit" THEN 0 ELSE collectIdx - 1)
\* the ids of the jobs among them that ended in the given way, in list order
RECURSIVE IdsOf(_, _)
IdsOf(k, status) ==
  IF k = 0 THEN <<>>
  ELSE IF clusterJobs[k].status = status
       THEN Append(IdsOf(k - 1, status), clusterJobs[k].id)
       ELSE IdsOf(k - 1, status)

\* C31: the id i*len(C_rel)+j of a submitted job is its row index in the
\* parameter table, whose row holds the job's (c_si, c_rel), and no two jobs
\* share an id; the collection loop goes through the jobs in submission
\* order, waits for the job it is at, prints the jobs that raised and goes
\* on, and the run_{id} files are those of the collected jobs that finished
\* without exception, each holding its own job's result; the loop ends only
\* after the last job.
C31_ClusterCollection ==
  /\ Len(parameter_table) = Len(clusterJobs)
  /\ \A k \in 1..Len(clusterJobs) :
       /\ clusterJobs[k].id = k - 1
       /\ parameter_table[k] = clusterJobs[k].args
       /\ \E i \in 0..(Len(C_si) - 1), j \in 0..(Len(C_rel) - 1) :
            /\ clusterJobs[k].id = i * Len(C_rel) + j
            /\ clusterJobs[k].args = <<C_si[i + 1], C_rel[j + 1]>>
  /\ \A k, m \in 1..Len(clusterJobs) : k # m => clusterJobs[k].id # clusterJobs[m].id
  /\ scanPc # "submit" =>
       /\ Len(clusterJobs) = Len(C_si) * Len(C_rel)
       /\ tableFile = parameter_table
  /\ \A k \in Collected : clusterJobs[k].status # "pending"
  /\ {f.id : f \in runFiles} =
       {clusterJobs[k].id : k \in {c \in Collected : clusterJobs[c].status = "finished"}}
  /\ \A f \in runFiles :
       f.result = Sample(parameter_table[f.id + 1][1], parameter_table[f.id + 1][2])
  /\ Cardinality(runFiles) = Cardinality({f.id : f \in runFiles})
  /\ failures = IdsOf(Cardinality(Collected), "exception")
  /\ (scanPc = "collect" /\ collectIdx <= Len(clusterJobs)
        /\ clusterJobs[collectIdx].status # "pending") => ENABLED Collect
  /\ scanPc = "done" => collectIdx = Len(clusterJobs) + 1

\* the scan has ended: the second job raised, the third finished after it
\* and was saved as run_2, the last job raised as well
C31_Witness ==
  /\ scanPc = "done"
  /\ clusterJobs[2].status = "exception"
  /\ clusterJobs[3].status = "finished"
  /\ clusterJobs[Len(clusterJobs)].status = "exception"
  /\ failures = <<1, Len(clusterJobs) - 1>>
  /\ [id |-> 2, result |-> Sample(C_si[2], C_rel[1])] \in runFiles
  /\ Cardinality(runFiles) = Len(clusterJobs) - 2

====
